---- MODULE Spec2Model ----
(***************************************************************************)
(* A model of gym_deepdrive/envs/deepdrive_gym_env.py: the episode loop of *)
(* DeepDriveEnv (_step, _reset, reward accumulation, stuck and lap         *)
(* detection, benchmark trials), DeepDriveRewardCalculator, and the        *)
(* connection handshake of DeepDriveEnv.connect.                           *)
(*                                                                         *)
(* Real numbers are exact rationals <<numerator, denominator>> in lowest   *)
(* terms with a positive denominator.  Time is counted in ticks,           *)
(* TicksPerSec ticks to the second.  Python's None is NoneT for nullable   *)
(* integers (whose values are never negative) and NoneR for nullable       *)
(* reals.                                                                  *)
(***************************************************************************)
EXTENDS Integers, Sequences, FiniteSets, TLC

(* ------------------------------ bounds --------------------------------- *)

\* Resolution of the clock: ticks per second.
TicksPerSec == 2
\* Latest clock value at which an operation may still read the clock.
MaxClock == 6
\* Longest wait, in ticks, for the next capture frame at the start of a step.
MaxFrameWait == 2
\* Number of benchmark trials already recorded when SpecBench starts.
PriorTrials == 999
\* Longest run of consecutive is_stuck calls on a crawling car.
MaxRun == 100
\* Most calls of such a run that may find the throttle off.
MaxThrottleOff == 19
\* Most messages a bounded dashboard hand-off would let wait.
MaxPending == 3

(* ---------------------------- exact reals ------------------------------ *)

NoneT == -1
NoneR == <<0, 0>>

Abs(n) == IF n < 0 THEN -n ELSE n

RECURSIVE GCD(_, _)
GCD(a, b) == IF b = 0 THEN a ELSE GCD(b, a % b)

Norm(n, d) == LET g == GCD(Abs(n), d) IN <<n \div g, d \div g>>
Rat(n, d) == IF d > 0 THEN Norm(n, d) ELSE Norm(-n, -d)
RInt(n) == <<n, 1>>
RZero == <<0, 1>>
RAdd(a, b) == Norm(a[1] * b[2] + b[1] * a[2], a[2] * b[2])
RNeg(a) == <<-a[1], a[2]>>
RSub(a, b) == RAdd(a, RNeg(b))
RMul(a, b) == Norm(a[1] * b[1], a[2] * b[2])
RDiv(a, b) == Rat(a[1] * b[2], a[2] * b[1])
RLt(a, b) == a[1] * b[2] < b[1] * a[2]
RLe(a, b) == a[1] * b[2] <= b[1] * a[2]
RMin(a, b) == IF RLt(b, a) THEN b ELSE a
RMax(a, b) == IF RLt(a, b) THEN b ELSE a

\* The result of a call that may raise: a value, or the exception's name.
Ok(v) == [raised |-> "none", value |-> v]
Raise(e) == [raised |-> e, value |-> RZero]

(* --------------------- DeepDriveRewardCalculator ----------------------- *)

SPEED_LIMIT_KPH == 64

\* A clip that lets every value through.
noclip(reward) == reward

\* min(max(reward, -1e2), 1e2)
clip(reward) == RMin(RMax(reward, RInt(-100)), RInt(100))

\* cmps: a real; time_passed: a real, or None, which the products refuse.
CalcSpeedReward(cmps, time_passed) ==
  IF time_passed = NoneR THEN Raise("TypeError") ELSE
  LET speed_kph == RDiv(RDiv(RMul(cmps, RInt(3600)), RInt(100)), RInt(1000))
      balance_coeff == Rat(2, 10)
      speed_delta == RSub(speed_kph, RInt(SPEED_LIMIT_KPH))
      speed_reward ==
        IF RLt(RInt(4), speed_delta)
        THEN RMul(RMul(RMul(RMul(RInt(-1), balance_coeff), speed_kph), time_passed),
                  RMul(speed_delta, speed_delta))
        ELSE RMul(RMul(balance_coeff, time_passed), speed_kph)
  IN Ok(clip(speed_reward))

\* A lane deviation penalty that does not look at the sign of its input.
LanePenaltyOfAnySign(lane_deviation, time_passed) ==
  Ok(clip(IF time_passed # NoneR /\ RLt(RInt(200), lane_deviation)
          THEN RDiv(RMul(RMul(Rat(1, 10), time_passed),
                         RMul(lane_deviation, lane_deviation)), RInt(100))
          ELSE RZero))

CalcLaneDeviationPenalty(lane_deviation, time_passed) ==
  IF RLt(lane_deviation, RZero)
  THEN Raise("ValueError")
  ELSE LET lane_deviation_penalty ==
             IF time_passed # NoneR /\ RLt(RInt(200), lane_deviation)
             THEN RDiv(RMul(RMul(Rat(1, 10), time_passed),
                            RMul(lane_deviation, lane_deviation)), RInt(100))
             ELSE RZero
       IN Ok(clip(lane_deviation_penalty))

CalcGforcePenalty(gforces, time_passed) ==
  IF RLt(gforces, RZero)
  THEN Raise("ValueError")
  ELSE IF RLt(Rat(1, 2), gforces)
       THEN IF time_passed = NoneR
            THEN Raise("TypeError")
            ELSE LET time_weighted_gs == RMin(RMul(time_passed, gforces), RInt(5))
                     balance_coeff == RInt(24)
                 IN Ok(clip(RMul(time_weighted_gs, balance_coeff)))
       ELSE Ok(clip(RZero))

CalcProgressReward(progress, time_passed) ==
  IF time_passed # NoneR /\ time_passed = RZero
  THEN Raise("ZeroDivisionError")
  ELSE LET lap_wrap == time_passed # NoneR
                       /\ RLt(RDiv(progress, time_passed), RInt(-400 * 100))
           progress1 == IF lap_wrap THEN RZero ELSE progress
           balance_coeff == RInt(1)
       IN Ok(clip(RMul(RDiv(progress1, RInt(100)), balance_coeff)))

(* ------------------------------ inputs --------------------------------- *)

\* What deepdrive_capture.step() hands to a step, after preprocess_observation:
\* a snapshot is a record holding the telemetry fields that are present.
\* NoObz is Python's None (a falsy capture result, or a caught SystemError).
NoObz == [none |-> TRUE]
CaptureError == [raises |-> "SystemError"]

Telemetry ==
  { [speed |-> 1000, throttle |-> 1, acceleration |-> <<980, 0, 0>>,
     distance_to_center_of_lane |-> 300],
    [speed |-> 0, throttle |-> 1, acceleration |-> <<0, 0, 0>>,
     distance_to_center_of_lane |-> 0],
    [speed |-> 0, throttle |-> 0],
    [throttle |-> 1],
    [speed |-> 1000, throttle |-> 1, acceleration |-> <<588, 784, 0>>,
     distance_to_center_of_lane |-> -1] }

Route ==
  { [cameras |-> <<>>],
    [cameras |-> <<>>, distance_along_route |-> 200, lap_number |-> 1],
    [cameras |-> <<>>, distance_along_route |-> 400, lap_number |-> 2] }

\* The union of two records with disjoint fields.
Merge(f, g) == [k \in DOMAIN f \cup DOMAIN g |-> IF k \in DOMAIN f THEN f[k] ELSE g[k]]

Snapshots == { Merge(t, r) : t \in Telemetry, r \in Route }
Captures == Snapshots \cup {NoObz, CaptureError}

Has(obz, k) == k \in DOMAIN obz

(* ------------------------------- state --------------------------------- *)

VARIABLES
  clock,     \* time.time(), in ticks
  environ,   \* the names set in os.environ
  self,      \* the fields of the DeepDriveEnv object
  heap,      \* the Score objects allocated since Init, by identity
  dash_queue,\* the messages waiting in the dashboard's Queue
  ret,       \* what the last call returned or raised, with what it observed
  cxn        \* the frame of connect: its position, its locals, what it did

vars == <<clock, environ, self, heap, dash_queue, ret, cxn>>

\* Score(): the class-level defaults and __init__.  finalized counts the
\* assignments of end_time (the calls of log_benchmark_trial on the object).
Score(t) ==
  [total |-> RZero, gforce_penalty |-> RZero, speed_reward |-> RZero,
   lane_deviation_penalty |-> RZero, progress_reward |-> RZero,
   got_stuck |-> FALSE, start_time |-> t, end_time |-> NoneT, finalized |-> 0]

\* A machine state threaded through the methods: the object, the heap and
\* the dashboard's queue.
M(s, h, q) == [self |-> s, heap |-> h, dash |-> q]

TheScore(m) == m.heap[m.self.score]

AddToScore(m, field, v) ==
  [m EXCEPT !.heap[m.self.score][field] = RAdd(@, v)]

Range(seq) == { seq[i] : i \in DOMAIN seq }

RECURSIVE SqrtBetween(_, _, _)
SqrtBetween(n, lo, hi) ==
  IF lo >= hi THEN lo
  ELSE LET mid == (lo + hi + 1) \div 2
       IN IF mid * mid <= n THEN SqrtBetween(n, mid, hi) ELSE SqrtBetween(n, lo, mid - 1)

\* np.sqrt(a.dot(a)) for the vectors of Telemetry, whose norms are integers.
VectorNorm(a) ==
  LET dot == a[1] * a[1] + a[2] * a[2] + a[3] * a[3]
  IN SqrtBetween(dot, 0, Abs(a[1]) + Abs(a[2]) + Abs(a[3]))

(* ----------------------- DeepDriveEnv: rewards ------------------------- *)

\* One statement after another: F is the rest of the method, its parameter
\* the name the statement binds.
Then(v, F(_)) == F(v)

\* The result of a method: the machine state it leaves, the value it
\* returns and the exception it raises ("none" when it returns).
Returns(m, v) == [m |-> m, value |-> v, raised |-> "none"]
Raises(m, e) == [m |-> m, value |-> RZero, raised |-> e]

\* get_progress_reward: the calculator is called and its result dropped, the
\* term stays 0.  calc is what the calculator returned (NoneR: not called).
get_progress_reward(m, obz, time_passed) ==
  IF Has(obz, "distance_along_route")
  THEN LET dist == obz.distance_along_route - m.self.start_distance_along_route
           progress == dist - m.self.distance_along_route
           m1 == [m EXCEPT !.self.distance_along_route = dist]
           calc == CalcProgressReward(RInt(progress), time_passed)
       IN IF calc.raised # "none"
          THEN Raises(m1, calc.raised) @@ [calc |-> NoneR]
          ELSE Returns(AddToScore(m1, "progress_reward", RZero), RZero)
                 @@ [calc |-> calc.value]
  ELSE Returns(AddToScore(m, "progress_reward", RZero), RZero) @@ [calc |-> NoneR]

get_gforce_penalty(m, obz, time_passed) ==
  IF Has(obz, "acceleration") /\ time_passed # NoneR
  THEN LET gforces == Rat(VectorNorm(obz.acceleration), 980)
           calc == CalcGforcePenalty(gforces, time_passed)
       IN IF calc.raised # "none"
          THEN Raises(m, calc.raised)
          ELSE Returns(AddToScore(m, "gforce_penalty", calc.value), calc.value)
  ELSE Returns(AddToScore(m, "gforce_penalty", RZero), RZero)

get_lane_deviation_penalty(m, obz, time_passed) ==
  IF Has(obz, "distance_to_center_of_lane")
  THEN LET calc == CalcLaneDeviationPenalty(RInt(obz.distance_to_center_of_lane),
                                            time_passed)
       IN IF calc.raised # "none"
          THEN Raises(m, calc.raised)
          ELSE Returns(AddToScore(m, "lane_deviation_penalty", calc.value), calc.value)
  ELSE Returns(AddToScore(m, "lane_deviation_penalty", RZero), RZero)

get_speed_reward(m, obz, time_passed) ==
  IF Has(obz, "speed") /\ time_passed # NoneR
  THEN LET calc == CalcSpeedReward(RInt(obz.speed), time_passed)
       IN Returns(AddToScore(m, "speed_reward", calc.value), calc.value)
  ELSE Returns(AddToScore(m, "speed_reward", RZero), RZero)

\* A grace period of one second instead of 2.5.
GraceOfOneSecond(s, t) == t - s.start_time < TicksPerSec

\* time.time() - self.start_time < 2.5, the clock reading t.
InGracePeriod(s, t) == 2 * (t - s.start_time) < 5 * TicksPerSec

\* get_reward(obz, now), its own clock read being t.  Beside the result:
\* grace (the step fell in the grace period), progress_term (the progress
\* term that entered the reward) and calc_progress (what the calculator
\* returned for the step's progress; NoneR when it was not called).
get_reward(m, obz, now, t) ==
  IF obz = NoObz
  THEN Returns(m, RZero) @@ [grace |-> FALSE, progress_term |-> RZero, calc_progress |-> NoneR]
  ELSE IF InGracePeriod(m.self, t)
  THEN Returns(AddToScore(m, "total", RZero), RZero)
         @@ [grace |-> TRUE, progress_term |-> RZero, calc_progress |-> NoneR]
  ELSE
    Then(IF m.self.prev_step_time # NoneT
         THEN Rat(now - m.self.prev_step_time, TicksPerSec)
         ELSE NoneR, LAMBDA time_passed :
    Then(get_progress_reward(m, obz, time_passed), LAMBDA p :
    Then(get_gforce_penalty(p.m, obz, time_passed), LAMBDA g :
    Then(get_lane_deviation_penalty(g.m, obz, time_passed), LAMBDA l :
    Then(get_speed_reward(l.m, obz, time_passed), LAMBDA sp :
    Then(RSub(RSub(RAdd(p.value, sp.value), g.value), l.value), LAMBDA reward :
      (CASE p.raised # "none" -> Raises(p.m, p.raised)
         [] g.raised # "none" -> Raises(g.m, g.raised)
         [] l.raised # "none" -> Raises(l.m, l.raised)
         [] OTHER -> Returns(AddToScore(sp.m, "total", reward), reward))
      @@ [grace |-> FALSE, progress_term |-> p.value, calc_progress |-> p.calc]))))))

(* ---------------- DeepDriveEnv: benchmark, laps, stuck ----------------- *)

\* log_benchmark_trial, the clock reading t: the trial's statistics and the
\* CSV file are functions of trial_scores and are not kept.
log_benchmark_trial(m, t) ==
  [m EXCEPT !.heap[m.self.score].end_time = t,
            !.heap[m.self.score].finalized = @ + 1,
            !.self.trial_scores = Append(@, m.self.score)]

BenchmarkTrials == 1000

\* A compute_lap_statistics that ends a benchmark episode only at the
\* 1000th trial.
compute_lap_statistics_at_cap(m, done, obz, t) ==
  IF obz = NoObz
  THEN Returns(m, done)
  ELSE LET lap_number == IF Has(obz, "lap_number") THEN obz.lap_number ELSE NoneT
       IN IF lap_number # NoneT /\ m.self.lap_number # NoneT
             /\ m.self.lap_number < lap_number
          THEN LET m1 == [m EXCEPT !.self.prev_lap_score = TheScore(m).total]
                   m2 == IF m1.self.should_benchmark
                         THEN log_benchmark_trial(m1, t)
                         ELSE m1
                   capped == m1.self.should_benchmark
                             /\ Len(m2.self.trial_scores) = BenchmarkTrials
                   m3 == IF capped THEN [m2 EXCEPT !.self.done_benchmarking = TRUE] ELSE m2
                   done1 == IF capped THEN TRUE ELSE done
                   done2 == IF m1.self.should_end_on_lap = 1 THEN TRUE ELSE done1
               IN Returns([m3 EXCEPT !.self.lap_number = lap_number], done2)
          ELSE Returns([m EXCEPT !.self.lap_number = lap_number], done)

\* compute_lap_statistics(done, obz), the clock reading t.
compute_lap_statistics(m, done, obz, t) ==
  IF obz = NoObz
  THEN Returns(m, done)
  ELSE LET lap_number == IF Has(obz, "lap_number") THEN obz.lap_number ELSE NoneT
       IN IF lap_number # NoneT /\ m.self.lap_number # NoneT
             /\ m.self.lap_number < lap_number
          THEN LET m1 == [m EXCEPT !.self.prev_lap_score = TheScore(m).total]
                   m2 == IF m1.self.should_benchmark
                         THEN log_benchmark_trial(m1, t)
                         ELSE m1
                   m3 == IF m1.self.should_benchmark
                            /\ Len(m2.self.trial_scores) = BenchmarkTrials
                         THEN [m2 EXCEPT !.self.done_benchmarking = TRUE]
                         ELSE m2
                   done1 == IF m1.self.should_benchmark THEN TRUE ELSE done
                   done2 == IF m1.self.should_end_on_lap = 1 THEN TRUE ELSE done1
               IN Returns([m3 EXCEPT !.self.lap_number = lap_number], done2)
          ELSE Returns([m EXCEPT !.self.lap_number = lap_number], done)

\* reset_forward_progress, the clock reading t.
reset_forward_progress(m, t) ==
  [m EXCEPT !.self.last_forward_progress_time = t,
            !.self.steps_crawling_with_throttle_on = 0,
            !.self.steps_crawling = 0]

\* A ratio of 0.8 counted as stuck.
AtLeastFourFifths(s) == 5 * s.steps_crawling_with_throttle_on >= 4 * s.steps_crawling

\* A ratio that must be 1: the throttle on in every crawling step.
ThrottleAlwaysOn(s) == s.steps_crawling_with_throttle_on = s.steps_crawling

\* steps_crawling_with_throttle_on / float(steps_crawling) > 0.8
MostlyThrottleOn(s) == 5 * s.steps_crawling_with_throttle_on > 4 * s.steps_crawling

\* is_stuck(obz), the clock reading t; env is os.environ.
is_stuck(m, obz, t, env) ==
  IF "TEST_BENCHMARK_WRITE" \in env
  THEN Returns(log_benchmark_trial([m EXCEPT !.heap[m.self.score].got_stuck = TRUE], t),
               TRUE)
  ELSE IF obz = NoObz
  THEN Returns(m, FALSE)
  ELSE IF ~Has(obz, "speed")
  THEN Raises(m, "KeyError")
  ELSE IF obz.speed < 100
  THEN LET m1 == [m EXCEPT !.self.steps_crawling = @ + 1]
       IN IF ~Has(obz, "throttle")
          THEN Raises(m1, "KeyError")
          ELSE LET m2 == IF obz.throttle > 0
                         THEN [m1 EXCEPT !.self.steps_crawling_with_throttle_on = @ + 1]
                         ELSE m1
               IN IF t - m2.self.last_forward_progress_time > 1 * TicksPerSec
                     /\ MostlyThrottleOn(m2.self)
                  THEN LET m3 == reset_forward_progress(m2, t)
                           m4 == IF m3.self.should_benchmark
                                 THEN log_benchmark_trial(
                                        [m3 EXCEPT !.heap[m3.self.score].got_stuck = TRUE], t)
                                 ELSE m3
                       IN Returns(m4, TRUE)
                  ELSE Returns(m2, FALSE)
  ELSE Returns(reset_forward_progress(m, t), FALSE)

(* ------------------- DeepDriveEnv: control and steps ------------------- *)

\* request_agent_control / release_agent_control: reply is 1 when the client
\* returned 1 to the request, or anything but None to the release.
request_agent_control(m, reply) == [m EXCEPT !.self.has_control = reply]
release_agent_control(m, reply) == [m EXCEPT !.self.has_control = reply]

\* send_control(action): has_control is action.has_control (0 or 1).  Returns
\* the state and the calls made through the control boundary.
send_control(m, has_control, reply) ==
  IF m.self.has_control # has_control
  THEN IF has_control = 1
       THEN [m |-> request_agent_control(m, reply),
             calls |-> <<"request_agent_control", "set_control_values">>]
       ELSE [m |-> release_agent_control(m, reply),
             calls |-> <<"release_agent_control", "set_control_values">>]
  ELSE [m |-> m, calls |-> <<"set_control_values">>]

\* A get_observation without the try.
get_observation_uncaught(capture) == capture

\* get_observation: a SystemError of the capture is caught and leaves None.
get_observation(capture) == IF capture = CaptureError THEN NoObz ELSE capture

\* reward -= -10000
StuckPenalty(reward) == RSub(reward, RInt(-10000))

\* What a call leaves in ret when it has nothing to say about a field.
NoRet ==
  [op |-> "none", raised |-> "none", obz |-> NoObz, reward |-> RZero, done |-> FALSE,
   calls |-> <<>>, at |-> 0, stuck |-> FALSE, computed |-> RZero, grace |-> FALSE,
   progress_term |-> RZero, calc_progress |-> NoneR, args |-> <<>>,
   capture_error |-> FALSE, lap_done |-> FALSE,
   run |-> 0, run_throttle |-> 0, run_stuck |-> 0, run_overdue |-> FALSE, period |-> 0,
   snapshot |-> NoObz]

\* _step(action): now is the clock read of _step, t1 that of get_reward and
\* compute_lap_statistics, t2 that of is_stuck.  Returns the state left and
\* the step's result; at is the last clock reading made, snapshot what
\* get_observation gave the step (whether or not the step returned it).
step(m, env, capture, has_control, reply, now, t1, t2) ==
  Then(send_control(m, has_control, reply), LAMBDA c :
  Then(get_observation(capture), LAMBDA obz :
  Then(get_reward(c.m, obz, now, t1), LAMBDA r :
  Then([NoRet EXCEPT !.op = "step", !.calls = c.calls, !.grace = r.grace,
                     !.capture_error = (capture = CaptureError),
                     !.snapshot = obz,
                     !.progress_term = r.progress_term,
                     !.calc_progress = r.calc_progress], LAMBDA seen :
    IF r.raised # "none"
    THEN [m |-> r.m, ret |-> [seen EXCEPT !.raised = r.raised, !.at = t1]]
    ELSE
      Then(compute_lap_statistics(r.m, FALSE, obz, t1), LAMBDA l :
      Then([l.m EXCEPT !.self.prev_step_time = now], LAMBDA m1 :
      Then(IF m1.self.dashboard_queue # NoneT
           THEN [m1 EXCEPT !.dash = Append(@, "display_stats")]
           ELSE m1, LAMBDA m2 :
      Then(is_stuck(m2, obz, t2, env), LAMBDA k :
        IF k.raised # "none"
        THEN [m |-> k.m, ret |-> [seen EXCEPT !.raised = k.raised, !.at = t2,
                                              !.computed = r.value,
                                              !.lap_done = l.value]]
        ELSE [m |-> [k.m EXCEPT !.self.step_num = @ + 1],
              ret |-> [seen EXCEPT !.obz = obz, !.at = t2, !.computed = r.value,
                                   !.stuck = k.value, !.lap_done = l.value,
                                   !.reward = IF k.value THEN StuckPenalty(r.value)
                                              ELSE r.value,
                                   !.done = IF k.value THEN TRUE ELSE l.value]]))))))))

\* A _reset that zeroes the Score object it has instead of making one.
ScoreInPlace(m, t) == [m EXCEPT !.heap[m.self.score] = Score(t)]

\* Score(): a new object.  The object it replaces is dropped when no
\* benchmark trial refers to it, and the new one takes its place in the heap.
NewScore(m, t) ==
  IF m.self.score \in Range(m.self.trial_scores)
  THEN [m EXCEPT !.heap = @ @@ ((m.self.score + 1) :> Score(t)),
                 !.self.score = @ + 1]
  ELSE [m EXCEPT !.heap[m.self.score] = Score(t)]

\* reset_agent
reset_agent(m, reply) == request_agent_control(m, reply)

\* _reset, the clock reading t.
reset(m, reply1, reply2, t) ==
  LET a == reset_agent(m, reply1)
      c == send_control(a, 1, reply2)
      z == [c.m EXCEPT !.self.step_num = 0,
                       !.self.distance_along_route = 0,
                       !.self.start_distance_along_route = 0,
                       !.self.prev_step_time = NoneT,
                       !.self.lap_number = NoneT,
                       !.self.prev_lap_score = RZero]
      n == NewScore(z, t)
  IN [m |-> [n EXCEPT !.self.start_time = t],
      ret |-> [NoRet EXCEPT !.op = "reset", !.at = t,
                            !.calls = <<"request_agent_control", "reset_agent">> \o c.calls]]

(* ------------------------ DeepDriveEnv: connect ------------------------ *)

\* Python values that cross the control boundary: None, an int, a dict (its
\* items a record), a list (its items a sequence), a Camera object.
PyNone == [type |-> "NoneType"]
PyInt(n) == [type |-> "int", value |-> n]
PyDict(items) == [type |-> "dict", items |-> items]
PyList(items) == [type |-> "list", items |-> items]

\* bool(v)
Truthy(v) ==
  CASE v.type = "NoneType" -> FALSE
    [] v.type = "int" -> v.value # 0
    [] v.type = "dict" -> DOMAIN v.items # {}
    [] v.type = "list" -> Len(v.items) > 0
    [] OTHER -> TRUE

\* default_cam is a Camera object; the cameras a caller passes are dicts.
default_cam == [type |-> "Camera", name |-> "front_cam"]
CamDict(name) == PyDict([name |-> name, field_of_view |-> 60])
CameraArgs == { PyNone, PyList(<<CamDict("a")>>), PyList(<<CamDict("a"), CamDict("b")>>) }

\* What deepdrive_client.create can return.
Session(client_id, resolution, version) ==
  PyDict([client_id |-> client_id, max_capture_resolution |-> resolution,
          server_protocol_version |-> version])
Responses ==
  { PyInt(0), PyInt(5), PyNone, PyDict(<<>>),
    Session(1, 1, 1), Session(1, 1, 2), Session(1, 0, 1), Session(0, 1, 1),
    PyDict([client_id |-> 1, server_protocol_version |-> 1]) }

max_cxn_attempts == 10
CaptureBindTries == 10

\* The frame of a connect call.  log lists the calls it made through the
\* boundaries and its sleeps; prev_sleep and last_sleep are its last two
\* handshake sleeps, in ticks.  usable outlives the frame: a connect call
\* has returned, and neither _close nor change_viewpoint has closed the
\* session it opened since.
NoCall ==
  [pc |-> "idle", cameras |-> PyNone, cxn_attempts |-> 0, n |-> 0, sleep |-> RZero,
   raised |-> "none", log |-> <<>>, prev_sleep |-> NoneT, last_sleep |-> NoneT,
   usable |-> FALSE]

\* A handshake that does not look at the type of the response.
isinstance_never(props) == FALSE

\* isinstance(self.connection_props, int)
isinstance_int(props) == props.type = "int"

\* not self.connection_props or not self.connection_props['max_capture_resolution']:
\* "retry", or the exception the subscript raises.
TryAgain(props) ==
  IF ~Truthy(props) THEN "retry"
  ELSE IF props.type # "dict" THEN "TypeError"
  ELSE IF ~Has(props.items, "max_capture_resolution") THEN "KeyError"
  ELSE IF props.items.max_capture_resolution = 0 THEN "retry"
  ELSE "go on"

\* A _connect() that does not compare the versions.
connect_any_version(s, props) ==
  LET s1 == [s EXCEPT !.connection_props = props]
  IN IF isinstance_int(props)
     THEN [self |-> s1, raised |-> "Exception: old version of the deepdrive client"]
     ELSE IF TryAgain(props) = "retry"
     THEN [self |-> s1, raised |-> "none"]
     ELSE IF TryAgain(props) # "go on"
     THEN [self |-> s1, raised |-> TryAgain(props)]
     ELSE [self |-> [s1 EXCEPT !.client_id = props.items.client_id], raised |-> "none"]

\* _connect(), create returning props: the object it leaves and what it raises.
connect_(s, props) ==
  LET s1 == [s EXCEPT !.connection_props = props]
  IN IF isinstance_int(props)
     THEN [self |-> s1, raised |-> "Exception: old version of the deepdrive client"]
     ELSE IF TryAgain(props) = "retry"
     THEN [self |-> s1, raised |-> "none"]
     ELSE IF TryAgain(props) # "go on"
     THEN [self |-> s1, raised |-> TryAgain(props)]
     ELSE LET s2 == [s1 EXCEPT !.client_id = props.items.client_id]
          IN IF s2.client_version # props.items.server_protocol_version
             THEN [self |-> s2, raised |-> "RuntimeError: versions do not match"]
             ELSE [self |-> s2, raised |-> "none"]

\* The class of a response, as the log keeps it.
Class(props) ==
  IF props.type = "int" THEN "create:int"
  ELSE IF ~Truthy(props) THEN "create:falsy"
  ELSE "create:dict"

\* The attempts compared with > instead of >=.
ExhaustedLate(cxn_attempts) == cxn_attempts > max_cxn_attempts

\* cxn_attempts >= max_cxn_attempts
Exhausted(cxn_attempts) == cxn_attempts >= max_cxn_attempts

\* A backoff that forgets the attempt number.
FlatSleep(cxn_attempts, splay) == TicksPerSec + splay

\* cxn_attempts + random.random() * 2, in ticks; splay is the random part.
BackoffSleep(cxn_attempts, splay) == cxn_attempts * TicksPerSec + splay

Splays == 0..(2 * TicksPerSec - 1)


(* ------------------------------ actions -------------------------------- *)

\* DeepDriveEnv.__init__ at time t.
NewEnv(t) ==
  [start_time |-> t, step_num |-> 0, prev_step_time |-> NoneT,
   dashboard_queue |-> NoneT, client_id |-> NoneT, has_control |-> NoneT,
   cameras |-> PyNone, connection_props |-> PyNone, client_version |-> 1,
   last_forward_progress_time |-> t, steps_crawling_with_throttle_on |-> 0,
   steps_crawling |-> 0, distance_along_route |-> 0, start_distance_along_route |-> 0,
   score |-> 1, lap_number |-> NoneT, prev_lap_score |-> RZero,
   should_end_on_lap |-> NoneT, should_benchmark |-> FALSE,
   done_benchmarking |-> FALSE, trial_scores |-> <<>>]

Environs == { {}, {"TEST_BENCHMARK_WRITE"} }

Init ==
  /\ clock = 0
  /\ environ \in Environs
  /\ self = NewEnv(0)
  /\ heap = <<Score(0)>>
  /\ dash_queue = <<>>
  /\ ret = NoRet
  /\ cxn = NoCall

Leave(x) ==
  /\ self' = x.m.self
  /\ heap' = x.m.heap
  /\ dash_queue' = x.m.dash
  /\ ret' = x.ret
  /\ clock' = x.ret.at
  /\ UNCHANGED cxn

\* _step(action) on a capture of Caps, the action's has_control in Controls and
\* the client's reply in Replies.  The frame arrives wait ticks after the last
\* clock reading, and the clock reads of one step fall in one tick.
StepOn(Caps, Controls, Replies) ==
  \E capture \in Caps, has_control \in Controls, reply \in Replies,
     wait \in 1..MaxFrameWait :
    /\ clock + wait <= MaxClock
    /\ Leave(step(M(self, heap, dash_queue), environ, capture, has_control, reply,
                  clock + wait, clock + wait, clock + wait))
    /\ UNCHANGED environ

\* _reset, the client's replies in Replies.
ResetOn(Replies) ==
  \E reply1 \in Replies, reply2 \in Replies :
    /\ Leave(reset(M(self, heap, dash_queue), reply1, reply2, clock))
    /\ UNCHANGED environ

\* init_benchmarking
InitBenchmarking ==
  /\ ~self.should_benchmark
  /\ self' = [self EXCEPT !.should_benchmark = TRUE]
  /\ UNCHANGED <<clock, environ, heap, dash_queue, ret, cxn>>

\* set_to_end_on_lap(should_end_on_lap)
SetToEndOnLap ==
  \E should_end_on_lap \in {0, 1} :
    /\ self.should_end_on_lap # should_end_on_lap
    /\ self' = [self EXCEPT !.should_end_on_lap = should_end_on_lap]
    /\ UNCHANGED <<clock, environ, heap, dash_queue, ret, cxn>>

\* start_dashboard: nothing when debugging, else a new Queue() and a new
\* dashboard process that reads it.
StartDashboard ==
  \E debugging \in BOOLEAN :
    /\ IF debugging
       THEN UNCHANGED <<self, dash_queue>>
       ELSE /\ self' = [self EXCEPT !.dashboard_queue = 1]
            /\ dash_queue' = <<>>
    /\ UNCHANGED <<clock, environ, heap, ret, cxn>>

\* get_next of the dashboard process: dash_queue.get takes the oldest
\* message, when there is one.
GetNext ==
  /\ self.dashboard_queue # NoneT
  /\ dash_queue # <<>>
  /\ dash_queue' = Tail(dash_queue)
  /\ UNCHANGED <<clock, environ, self, heap, ret, cxn>>

\* connect(cameras) is called.
Connect ==
  \E cameras \in CameraArgs :
    /\ cxn.pc \in {"idle", "returned", "raised"}
    /\ cxn' = [NoCall EXCEPT !.pc = "_connect", !.cameras = cameras,
                             !.usable = cxn.usable]
    /\ UNCHANGED <<clock, environ, self, heap, dash_queue, ret>>

\* _close, between two calls of connect: the dashboard is told to stop, the
\* capture and the client are closed.
Close ==
  /\ cxn.pc \in {"idle", "returned", "raised"}
  /\ dash_queue' = IF self.dashboard_queue # NoneT
                   THEN Append(dash_queue, "should_stop")
                   ELSE dash_queue
  /\ self' = [self EXCEPT !.client_id = 0]
  /\ cxn' = [cxn EXCEPT !.usable = FALSE]
  /\ UNCHANGED <<clock, environ, heap, ret>>

\* change_viewpoint(cameras, use_sim_start_command), up to its call of
\* connect: the capture and the client are closed and the simulator is
\* restarted.
ChangeViewpoint ==
  \E cameras \in CameraArgs :
    /\ cxn.pc \in {"idle", "returned", "raised"}
    /\ self' = [self EXCEPT !.client_id = 0]
    /\ cxn' = [NoCall EXCEPT !.pc = "_connect", !.cameras = cameras]
    /\ UNCHANGED <<clock, environ, heap, dash_queue, ret>>

\* One _connect(): the first, or the one of a turn of the while loop with
\* the two statements that follow it there.
Handshake ==
  \E props \in Responses :
    /\ cxn.pc \in {"_connect", "retry"}
    /\ LET c == connect_(self, props)
           f == [cxn EXCEPT !.log = Append(@, Class(props))]
       IN /\ self' = c.self
          /\ cxn' = IF c.raised # "none"
                    THEN [f EXCEPT !.pc = "raised", !.raised = c.raised]
                    ELSE IF cxn.pc = "_connect"
                    THEN [f EXCEPT !.pc = "while"]
                    ELSE IF Exhausted(cxn.cxn_attempts)
                    THEN [f EXCEPT !.pc = "raised",
                                   !.raised = "RuntimeError: could not connect"]
                    ELSE [f EXCEPT !.pc = "while",
                                   !.cameras = IF @ = PyNone THEN PyList(<<default_cam>>)
                                               ELSE @]
    /\ UNCHANGED <<clock, environ, heap, dash_queue, ret>>

\* while not self.connection_props: the turn up to its sleep.
Backoff ==
  \E splay \in Splays :
    /\ cxn.pc = "while"
    /\ ~Truthy(self.connection_props)
    /\ cxn' = [cxn EXCEPT !.pc = "retry",
                          !.cxn_attempts = @ + 1,
                          !.prev_sleep = cxn.last_sleep,
                          !.last_sleep = BackoffSleep(cxn.cxn_attempts + 1, splay),
                          !.log = Append(@, "sleep")]
    /\ UNCHANGED <<clock, environ, self, heap, dash_queue, ret>>

\* What registering cam raises: cam['field_of_view'] needs a dict.
RegisterRaises(cam) == IF cam.type = "dict" THEN "none" ELSE "TypeError"

RECURSIVE RegisterLog(_)
RegisterLog(cams) ==
  IF cams = <<>> THEN <<>>
  ELSE IF RegisterRaises(Head(cams)) # "none" THEN <<>>
  ELSE <<"register_camera:" \o Head(cams).items.name>> \o RegisterLog(Tail(cams))

\* After the loop: self.cameras = cameras, the registration of the cameras
\* and get_shared_memory, or raise_connect_fail.
RegisterCameras ==
  /\ cxn.pc = "while"
  /\ Truthy(self.connection_props)
  /\ self' = [self EXCEPT !.cameras = cxn.cameras]
  /\ cxn' =
       IF self.client_id > 0
       THEN IF cxn.cameras.type # "list"
            THEN [cxn EXCEPT !.pc = "raised", !.raised = "TypeError"]
            ELSE LET done == RegisterLog(cxn.cameras.items)
                 IN IF Len(done) < Len(cxn.cameras.items)
                    THEN [cxn EXCEPT !.pc = "raised", !.raised = "TypeError",
                                     !.log = @ \o done]
                    ELSE [cxn EXCEPT !.pc = "reset_capture",
                                     !.n = CaptureBindTries, !.sleep = Rat(1, 10),
                                     !.log = @ \o done \o <<"get_shared_memory">>]
       ELSE [cxn EXCEPT !.pc = "raised",
                        !.raised = "Exception: could not connect to the environment"]
  /\ UNCHANGED <<clock, environ, heap, dash_queue, ret>>

\* A reset_capture whose loop test is n >= 0.
BindOnceMore ==
  \E bound \in BOOLEAN :
    /\ cxn.pc = "reset_capture"
    /\ IF bound
       THEN /\ cxn' = [cxn EXCEPT !.pc = "returned", !.usable = TRUE,
                                  !.log = Append(@, "capture.reset")]
            /\ self' = [self EXCEPT !.has_control = 0]
       ELSE /\ cxn' = [cxn EXCEPT !.n = @ - 1,
                                  !.sleep = RMul(@, RInt(2)),
                                  !.log = @ \o <<"capture.reset", "sleep">>,
                                  !.pc = IF cxn.n - 1 >= 0 THEN "reset_capture" ELSE "raised",
                                  !.raised =
                                    IF cxn.n - 1 >= 0 THEN "none"
                                    ELSE "Exception: could not connect to the environment"]
            /\ self' = self
    /\ UNCHANGED <<clock, environ, heap, dash_queue, ret>>

\* reset_capture: one turn of its loop, deepdrive_capture.reset returning
\* bound; after the last turn raise_connect_fail, after a bind the rest of
\* connect.
Bind ==
  \E bound \in BOOLEAN :
    /\ cxn.pc = "reset_capture"
    /\ IF bound
       THEN /\ cxn' = [cxn EXCEPT !.pc = "returned", !.usable = TRUE,
                                  !.log = Append(@, "capture.reset")]
            /\ self' = [self EXCEPT !.has_control = 0]
       ELSE /\ cxn' = [cxn EXCEPT !.n = @ - 1,
                                  !.sleep = RMul(@, RInt(2)),
                                  !.log = @ \o <<"capture.reset", "sleep">>,
                                  !.pc = IF cxn.n - 1 > 0 THEN "reset_capture" ELSE "raised",
                                  !.raised =
                                    IF cxn.n - 1 > 0 THEN "none"
                                    ELSE "Exception: could not connect to the environment"]
            /\ self' = self
    /\ UNCHANGED <<clock, environ, heap, dash_queue, ret>>


\* The snapshots of a car that crawls (speed < 100 cm/s).
Crawling == { [speed |-> 0, throttle |-> 1], [speed |-> 0, throttle |-> 0] }

\* is_stuck(obz) called on a crawling car, the clock read wait ticks after
\* the last one; the calls of a run come at a fixed period (0: all within
\* one tick).  ret counts the run: its calls, those that found the throttle
\* on, those that returned true (2 stands for two or more), and whether its
\* first call came more than 1 s after the last forward progress.
CallIsStuck ==
  \E obz \in Crawling, wait \in {0, 1} :
    /\ ret.run < MaxRun
    /\ ret.run > 0 => wait = ret.period
    /\ obz.throttle = 0 => ret.run - ret.run_throttle < MaxThrottleOff
    /\ LET t == clock + wait
           k == is_stuck(M(self, heap, dash_queue), obz, t, environ)
           trues == ret.run_stuck + (IF k.value THEN 1 ELSE 0)
       IN /\ self' = k.m.self
          /\ heap' = k.m.heap
          /\ dash_queue' = k.m.dash
          /\ clock' = t
          /\ ret' = [NoRet EXCEPT
                       !.op = "is_stuck", !.at = t, !.obz = obz,
                       !.raised = k.raised, !.stuck = k.value,
                       !.run = ret.run + 1,
                       !.run_throttle = ret.run_throttle + obz.throttle,
                       !.run_stuck = IF trues > 2 THEN 2 ELSE trues,
                       !.run_overdue =
                         IF ret.run = 0
                         THEN t - self.last_forward_progress_time > 1 * TicksPerSec
                         ELSE ret.run_overdue,
                       !.period = wait]
    /\ UNCHANGED <<environ, cxn>>

\* The inputs of the calculator's terms: magnitudes (speeds in cm/s, lane
\* deviations in cm, g-forces, progress in cm) and times passed in seconds.
Magnitudes ==
  { RInt(-5000), RInt(-300), RInt(-1), RZero, Rat(1, 2), RInt(1), RInt(250),
    RInt(2000), RInt(5000) }
TimesPassed == { NoneR, RInt(-1), RZero, Rat(1, 20), RInt(1), RInt(100) }

CalculatorTerms ==
  { "get_speed_reward", "get_lane_deviation_penalty", "get_gforce_penalty",
    "get_progress_reward" }

\* The static method term of DeepDriveRewardCalculator on (x, time_passed).
CalculatorTerm(term, x, time_passed) ==
  CASE term = "get_speed_reward" -> CalcSpeedReward(x, time_passed)
    [] term = "get_lane_deviation_penalty" -> CalcLaneDeviationPenalty(x, time_passed)
    [] term = "get_gforce_penalty" -> CalcGforcePenalty(x, time_passed)
    [] term = "get_progress_reward" -> CalcProgressReward(x, time_passed)

\* A call of one of the calculator's terms.
Calculate ==
  \E term \in CalculatorTerms, x \in Magnitudes, time_passed \in TimesPassed :
    /\ ret' = [NoRet EXCEPT !.op = term, !.args = <<x, time_passed>>,
                            !.reward = CalculatorTerm(term, x, time_passed).value,
                            !.raised = CalculatorTerm(term, x, time_passed).raised]
    /\ UNCHANGED <<clock, environ, self, heap, dash_queue, cxn>>

(* --------------------------- specifications --------------------------- *)

\* The episode loop of an agent that keeps control of the car (has_control
\* is gym_action's default, and the simulator grants it), without benchmark.
Step == StepOn(Captures, {1}, {1})
Reset == ResetOn({1})

Next == Step \/ Reset

Spec == Init /\ [][Next]_vars

\* A benchmark run (the test hook is not set), from the _reset that follows
\* its PriorTrials-th trial;
\* time is counted from that moment, the earlier trials lie at tick 0.  The
\* Score objects of the earlier trials, 1..PriorTrials, are referred to by
\* trial_scores alone, which no method writes through: they stay what
\* PriorScore says and are kept out of heap.
PriorScore == [Score(0) EXCEPT !.got_stuck = TRUE, !.end_time = 0, !.finalized = 1]

\* The Score object of identity id.
Deref(h, id) == IF id \in DOMAIN h THEN h[id] ELSE PriorScore

LapCaptures ==
  { Merge(t, r) : t \in { [speed |-> 1000, throttle |-> 1], [speed |-> 0, throttle |-> 1] },
                  r \in Route } \cup {NoObz}

InitBench ==
  /\ clock = 0
  /\ environ = {}
  /\ self = [NewEnv(0) EXCEPT !.should_benchmark = TRUE,
                              !.has_control = 1,
                              !.score = PriorTrials + 1,
                              !.trial_scores = [i \in 1..PriorTrials |-> i]]
  /\ heap = ((PriorTrials + 1) :> Score(0))
  /\ dash_queue = <<>>
  /\ ret = [NoRet EXCEPT !.op = "reset"]
  /\ cxn = NoCall

StepLap == StepOn(LapCaptures, {1}, {1})

NextBench == StepLap \/ Reset \/ SetToEndOnLap

SpecBench == InitBench /\ [][NextBench]_vars

NextConnect == Connect \/ Handshake \/ Backoff \/ RegisterCameras \/ Bind

SpecConnect == Init /\ [][NextConnect]_vars

\* An environment on which init_benchmarking and set_to_end_on_lap may be
\* called at any moment, from its construction.
NextLaps == StepLap \/ Reset \/ SetToEndOnLap \/ InitBenchmarking

SpecLaps == Init /\ [][NextLaps]_vars

\* Sessions opened by connect and closed by _close and change_viewpoint.
NextSession ==
  Connect \/ Handshake \/ Backoff \/ RegisterCameras \/ Bind \/ Close \/ ChangeViewpoint

SpecSession == Init /\ [][NextSession]_vars

\* The stuck detector alone, on a car that crawls: a run of is_stuck calls
\* that starts at once or more than a second after the car's last forward
\* progress (the construction of the environment).
InitStuck ==
  /\ clock \in {0, TicksPerSec + 1}
  /\ environ = {}
  /\ self = NewEnv(0)
  /\ heap = <<Score(0)>>
  /\ dash_queue = <<>>
  /\ ret = NoRet
  /\ cxn = NoCall

NextStuck == CallIsStuck

SpecStuck == InitStuck /\ [][NextStuck]_vars

\* The episode loop with a dashboard that reads at its own pace.
NextDash == StartDashboard \/ StepLap \/ GetNext

SpecDash == Init /\ [][NextDash]_vars

\* The calculator alone.
NextCalc == Calculate

SpecCalc == Init /\ [][NextCalc]_vars

(* ------------------------------- claims -------------------------------- *)

\* The last call was a _step that returned.
StepReturned == ret.op = "step" /\ ret.raised = "none"

\* C1: in every step in which is_stuck reports stuck, _step returns done =
\* true and a reward exactly 10000 lower than the reward get_reward computed
\* for that step.
C1_StuckPenaltySubtracted ==
  (StepReturned /\ ret.stuck) =>
    (ret.done /\ ret.reward = RSub(ret.computed, RInt(10000)))

\* The last call was a _step made less than 2.5 seconds after the episode's
\* start time (a step leaves start_time as it is).
StepWithinGrace ==
  StepReturned /\ 2 * (ret.at - self.start_time) < 5 * TicksPerSec

\* C2, as claimed: every step made less than 2.5 seconds after the episode's
\* start returns the reward 0, whatever the stuck detector reports.
C2_GraceRewardZero == StepWithinGrace => ret.reward = RZero

\* C2, amended: for every step made less than 2.5 seconds after the episode's
\* start, get_reward computes the reward 0 whatever the snapshot holds, and
\* _step returns 0 unless is_stuck reports stuck in that step.
C2_GraceRewardZeroUnlessStuck ==
  StepWithinGrace => (ret.computed = RZero /\ (~ret.stuck => ret.reward = RZero))

\* C2's case: a step in the grace period, not stuck, on a snapshot whose
\* terms would not be 0 after it (it is off the lane centre and fast, and a
\* previous step gives time_passed).
C2_Witness ==
  /\ StepWithinGrace /\ ~ret.stuck
  /\ self.step_num >= 2
  /\ Has(ret.obz, "distance_to_center_of_lane") /\ ret.obz.distance_to_center_of_lane = 300
  /\ Has(ret.obz, "speed") /\ ret.obz.speed = 1000

\* C3: after the grace period, for every step whose snapshot has
\* distance_along_route, the progress term that enters the reward is what
\* DeepDriveRewardCalculator.get_progress_reward returns for the step's
\* progress and time_passed.
C3_ProgressTermIsCalculators ==
  (ret.op = "step" /\ ret.calc_progress # NoneR) => ret.progress_term = ret.calc_progress

\* C4: done_benchmarking is true exactly when at least 1000 trials have been
\* recorded, whichever path recorded the 1000th.
C4_DoneIffThousandTrials ==
  self.done_benchmarking <=> Len(self.trial_scores) >= BenchmarkTrials

\* C5: trial_scores never holds more than 1000 entries.
C5_AtMostThousandTrials == Len(self.trial_scores) <= BenchmarkTrials

\* C6: each Score object is finalized at most once: its end_time is assigned
\* at most once and it appears at most once in trial_scores.
C6_FinalizedAtMostOnce ==
  /\ \A id \in DOMAIN heap : heap[id].finalized <= 1
  /\ Cardinality(Range(self.trial_scores)) = Len(self.trial_scores)

\* A response that is a mapping but has no usable max_capture_resolution.
LacksResolution(props) ==
  /\ props.type = "dict"
  /\ \/ ~Has(props.items, "max_capture_resolution")
     \/ props.items.max_capture_resolution = 0

\* C7: a handshake response that is a mapping without a usable
\* max_capture_resolution is retried while attempts remain: connect fails on
\* such a response only when the attempts are used up.
C7_IncompleteIsRetried ==
  (cxn.pc = "raised" /\ LacksResolution(self.connection_props)) =>
    cxn.cxn_attempts >= max_cxn_attempts

\* The positions in the log of the responses of class c.
Positions(c) == { i \in DOMAIN cxn.log : cxn.log[i] = c }

\* C8: a handshake response that is an integer raises at once, on the first
\* attempt or on a retry: it is the last thing connect did (no sleep, no
\* handshake, no camera registration and no capture bootstrap follow it) and
\* connect has raised the client-version error.
C8_MalformedFailsImmediately ==
  \A i \in Positions("create:int") :
    /\ i = Len(cxn.log)
    /\ cxn.pc = "raised"
    /\ cxn.raised = "Exception: old version of the deepdrive client"

\* C8's case: an integer response to a retry.
C8_Witness ==
  /\ Positions("create:int") # {}
  /\ Positions("sleep") # {}
  /\ cxn.pc = "raised"

\* C9, as claimed: the sleep before a retry is never shorter than the sleep
\* before the previous retry of the same connect call.
C9_SleepsNonDecreasing ==
  cxn.prev_sleep # NoneT => cxn.last_sleep >= cxn.prev_sleep

\* C9, amended: the sleep before retry k is at least k and less than k + 2
\* seconds, and is shorter than the sleep before retry k - 1 by less than
\* one second.
C9_SleepsWithinASecond ==
  cxn.last_sleep # NoneT =>
    /\ cxn.cxn_attempts * TicksPerSec <= cxn.last_sleep
    /\ cxn.last_sleep < (cxn.cxn_attempts + 2) * TicksPerSec
    /\ cxn.prev_sleep # NoneT => cxn.last_sleep + TicksPerSec > cxn.prev_sleep

\* C9's case: a retry that slept less than the retry before it.
C9_Witness ==
  cxn.prev_sleep # NoneT /\ cxn.last_sleep < cxn.prev_sleep

\* C10, as claimed: a connect call makes at most 10 handshake attempts.
C10_AtMostTenHandshakes ==
  Cardinality(Positions("create:int") \cup Positions("create:falsy")
              \cup Positions("create:dict")) <= 10

\* C10, amended: a connect call makes at most 11 handshake attempts, the
\* first and at most 10 retries, and when all of them fail transiently it
\* has raised the connection-failure error.
C10_AtMostElevenHandshakes ==
  /\ Cardinality(Positions("create:int") \cup Positions("create:falsy")
                 \cup Positions("create:dict")) <= max_cxn_attempts + 1
  /\ Cardinality(Positions("create:falsy")) = max_cxn_attempts + 1 =>
       (cxn.pc = "raised" /\ cxn.raised = "RuntimeError: could not connect")

\* C10's case: every attempt of a connect call failed transiently.
C10_Witness ==
  Cardinality(Positions("create:falsy")) = max_cxn_attempts + 1 /\ cxn.pc = "raised"

\* The last response of this connect call is complete (a mapping with a
\* usable max_capture_resolution) and its version is not the client's.
VersionMismatch ==
  /\ cxn.log # <<>>
  /\ self.connection_props.type = "dict"
  /\ Has(self.connection_props.items, "max_capture_resolution")
  /\ self.connection_props.items.max_capture_resolution # 0
  /\ self.connection_props.items.server_protocol_version # self.client_version

\* C11: when a handshake returns a complete response whose version differs
\* from the client's, connect has raised the version error and that handshake
\* is the last thing it did: no handshake, sleep, camera registration or
\* capture bootstrap follows it.
C11_MismatchRaisesAtOnce ==
  VersionMismatch =>
    /\ cxn.pc = "raised"
    /\ cxn.raised = "RuntimeError: versions do not match"
    /\ cxn.log[Len(cxn.log)] = "create:dict"

\* C11's case: a version mismatch in the response to a retry.
C11_Witness == VersionMismatch /\ Positions("sleep") # {}

\* The failed bind attempts of the reset_capture of this connect call.
FailedBinds ==
  IF Positions("capture.reset") = {} THEN 0 ELSE CaptureBindTries - cxn.n

\* C12: in reset_capture the sleep after the k-th failed bind attempt is
\* 0.1 * 2^(k-1) seconds: 0.1, 0.2, 0.4, ...
C12_SleepsDoubleFromTenth ==
  FailedBinds >= 1 => cxn.sleep = Rat(2 ^ (FailedBinds - 1), 10)

\* C13: reset_capture makes at most 10 bind attempts; a bind attempt that
\* is not the last thing connect did through its boundaries failed and was
\* followed by a sleep, so that connect returns at the first successful bind
\* with no attempt or sleep after it; and after 10 failed attempts connect
\* has raised the connect-failure error.
C13_AtMostTenBinds ==
  /\ Cardinality(Positions("capture.reset")) <= 10
  /\ \A i \in Positions("capture.reset") :
       IF i = Len(cxn.log) THEN cxn.pc = "returned" ELSE cxn.log[i + 1] = "sleep"
  /\ cxn.pc = "returned" => cxn.log[Len(cxn.log)] = "capture.reset"
  /\ (Cardinality(Positions("capture.reset")) = 10 /\ cxn.pc # "returned") =>
       (cxn.pc = "raised"
        /\ cxn.raised = "Exception: could not connect to the environment")

\* C13's case: ten bind attempts failed one after the other.
C13_Witness ==
  Cardinality(Positions("capture.reset")) = 10 /\ cxn.pc = "raised"

\* The camera registrations of this connect call, in the order they were made.
RegisterCalls ==
  SelectSeq(cxn.log, LAMBDA e : e \in { "register_camera:a", "register_camera:b",
                                        "register_camera:front_cam" })

\* connect was called without cameras (the loop may have put the default
\* camera in their place since).
NoCamerasGiven == cxn.cameras = PyNone \/ cxn.cameras = PyList(<<default_cam>>)

\* The handshakes of this connect call are over and left a session: connect
\* went on to the registration of the cameras.
PastHandshake ==
  /\ cxn.log # <<>>
  /\ self.client_id > 0
  /\ \/ cxn.pc \in {"reset_capture", "returned"}
     \/ cxn.pc = "raised"
        /\ cxn.raised \in {"TypeError", "Exception: could not connect to the environment"}

\* C14: once the handshake has succeeded, at the first attempt or after
\* retries, a connect called without cameras has registered the default
\* front camera and nothing else, and a connect called with cameras has
\* registered them in the order given, each once.
C14_DefaultCameraRegistered ==
  PastHandshake =>
    RegisterCalls =
      IF NoCamerasGiven THEN <<"register_camera:front_cam">>
      ELSE [i \in 1..Len(cxn.cameras.items) |->
              "register_camera:" \o cxn.cameras.items[i].items.name]

\* The last call was a call of one of the calculator's terms.
TermCalled == ret.op \in CalculatorTerms

\* C15: whenever one of the four calculator terms returns a value, the value
\* lies in [-100, 100].
C15_TermsWithinHundred ==
  (TermCalled /\ ret.raised = "none") =>
    (ret.reward[1] >= -100 * ret.reward[2] /\ ret.reward[1] <= 100 * ret.reward[2])

\* C15's case: a term whose value before clipping is beyond 100 (a lane
\* deviation of 20 m for 100 s).
C15_Witness ==
  /\ ret.op = "get_lane_deviation_penalty"
  /\ ret.args = <<RInt(2000), RInt(100)>>
  /\ ret.raised = "none"
  /\ ret.reward = RInt(100)

\* C16: get_lane_deviation_penalty and get_gforce_penalty raise ValueError
\* for every negative magnitude, whatever time_passed is (None included).
C16_NegativeMagnitudeRaises ==
  (ret.op \in {"get_lane_deviation_penalty", "get_gforce_penalty"}
   /\ ret.args[1][1] < 0) => ret.raised = "ValueError"

\* C16's case: a negative lane deviation without a time passed.
C16_Witness ==
  /\ ret.op = "get_lane_deviation_penalty"
  /\ ret.args[1][1] < 0 /\ ret.args[2] = NoneR
  /\ ret.raised = "ValueError"

\* This transition is a _step that returned and in which
\* compute_lap_statistics saw a lap transition: the snapshot's lap number
\* is greater than the stored one.
LapTransition ==
  /\ clock' > clock /\ ret'.op = "step" /\ ret'.raised = "none"
  /\ ret'.obz # NoObz /\ Has(ret'.obz, "lap_number")
  /\ self.lap_number # NoneT
  /\ self.lap_number < ret'.obz.lap_number

\* C17, as claimed: on a lap transition compute_lap_statistics marks the
\* episode done exactly when the end-on-lap flag is set, or benchmarking is
\* active and the trial count, the trial of this lap included, has reached
\* 1000.
C17_DoneOnLapAtCapOrFlag ==
  [][LapTransition =>
       (ret'.lap_done <=>
          (\/ self.should_end_on_lap = 1
           \/ self.should_benchmark /\ Len(self.trial_scores) + 1 >= 1000))]_vars

\* C17, amended: on a lap transition compute_lap_statistics marks the
\* episode done exactly when the end-on-lap flag is set or benchmarking is
\* active, whatever the trial count.
C17_DoneOnLapWhenBenchmarking ==
  [][LapTransition =>
       (ret'.lap_done <=> (self.should_end_on_lap = 1 \/ self.should_benchmark))]_vars

\* C17's case: a lap was completed with benchmarking active, end-on-lap
\* unset and fewer than 1000 trials, and it ended the episode.
C17_Witness ==
  /\ ret.op = "step" /\ ret.lap_done
  /\ self.should_benchmark /\ self.should_end_on_lap # 1
  /\ Len(self.trial_scores) < 1000

\* This transition is a _step that returned a snapshot without lap_number.
StepOmitsLap ==
  /\ clock' > clock /\ ret'.op = "step" /\ ret'.raised = "none"
  /\ ret'.obz # NoObz /\ ~Has(ret'.obz, "lap_number")

\* C18: in a step whose snapshot omits lap_number compute_lap_statistics
\* does nothing: the stored lap number and prev_lap_score are what they
\* were, it does not mark the episode done, and trial_scores is what it was
\* (unless is_stuck recorded a trial in that step).
C18_OmittedLapIsNoOp ==
  [][StepOmitsLap =>
       /\ self'.lap_number = self.lap_number
       /\ self'.prev_lap_score = self.prev_lap_score
       /\ ~ret'.lap_done
       /\ ~ret'.stuck => self'.trial_scores = self.trial_scores]_vars

\* This transition is a _step whose capture read raised SystemError, the
\* test hook being unset.
CaptureErrorStep ==
  /\ clock' > clock /\ ret'.op = "step" /\ ret'.capture_error
  /\ environ = {}

\* C19: a step whose capture read raises (the test hook unset) returns: no
\* observation, the reward 0 and done = false; and it leaves the Score
\* objects, the lap tracking state, the stuck tracking state and
\* trial_scores as they were.
C19_CaptureErrorIsCaught ==
  [][CaptureErrorStep =>
       /\ ret'.raised = "none"
       /\ ret'.obz = NoObz /\ ret'.reward = RZero /\ ~ret'.done
       /\ heap' = heap /\ self'.score = self.score
       /\ self'.lap_number = self.lap_number
       /\ self'.prev_lap_score = self.prev_lap_score
       /\ self'.last_forward_progress_time = self.last_forward_progress_time
       /\ self'.steps_crawling = self.steps_crawling
       /\ self'.steps_crawling_with_throttle_on = self.steps_crawling_with_throttle_on
       /\ self'.trial_scores = self.trial_scores]_vars

\* C19's case: a capture error in an episode that has a lap number and
\* crawling steps to keep.
C19_Witness ==
  /\ ret.op = "step" /\ ret.capture_error /\ environ = {}
  /\ self.lap_number # NoneT
  /\ self.steps_crawling > 0

\* The calls a _reset made through the control boundary begin with a
\* release of agent control, a request for it and the reset command.
ReleaseRequestReset ==
  /\ Len(ret.calls) >= 3
  /\ ret.calls[1] = "release_agent_control"
  /\ ret.calls[2] = "request_agent_control"
  /\ ret.calls[3] = "reset_agent"

\* C20: every _reset issues, in this order, a release of agent control, a
\* request for agent control and the reset-agent command, before the
\* per-episode state is zeroed.
C20_ResetReleasesThenRequests ==
  ret.op = "reset" => ReleaseRequestReset

\* No call of connect is under way.
BetweenCalls == cxn.pc \in {"idle", "returned", "raised"}

\* C21: between calls, client_id > 0 exactly when the session is usable: a
\* connect call has returned and neither _close nor change_viewpoint has
\* closed its session since.  A connect that fails at the version check or
\* at the capture bootstrap does not leave client_id > 0.
C21_ClientIdIffUsable ==
  BetweenCalls => (self.client_id > 0 <=> cxn.usable)

\* The last call ended a run of 100 consecutive is_stuck calls on a crawling
\* car, the throttle on in at least 81 of them, whose first call came more
\* than 1 s after the last forward progress.
RunOfHundred ==
  /\ ret.op = "is_stuck" /\ ret.run = 100
  /\ ret.run_throttle >= 81
  /\ ret.run_overdue

\* The stuck tracking state is what reset_forward_progress leaves.
TrackingReset ==
  /\ self.steps_crawling = 0
  /\ self.steps_crawling_with_throttle_on = 0
  /\ self.last_forward_progress_time = clock

C23_PendingBounded == Len(dash_queue) <= MaxPending

\* This transition is a _step that returned a snapshot, the test hook being
\* unset: its is_stuck looked at the snapshot.
StuckLooked ==
  /\ clock' > clock /\ ret'.op = "step" /\ ret'.raised = "none"
  /\ ret'.obz # NoObz
  /\ environ = {}

\* The crawling steps counted so far, the step of this transition included,
\* and those of them with the throttle on.
CrawlingNow == self.steps_crawling + 1
ThrottleOnNow ==
  self.steps_crawling_with_throttle_on + (IF ret'.obz.throttle > 0 THEN 1 ELSE 0)

\* C24: with the test hook unset, is_stuck reports stuck in exactly the
\* calls where the speed is below 100 cm/s, more than 1 s has passed since
\* last_forward_progress_time and the ratio of the crawling steps with the
\* throttle on, the current step counted, is strictly above 0.8; and a call
\* with a speed of 100 cm/s or more resets both counters and the timestamp
\* and reports not stuck.
C24_StuckExactlyWhenAboveFourFifths ==
  [][StuckLooked =>
       /\ ret'.stuck <=>
            /\ ret'.obz.speed < 100
            /\ clock' - self.last_forward_progress_time > TicksPerSec
            /\ 5 * ThrottleOnNow > 4 * CrawlingNow
       /\ ret'.obz.speed >= 100 =>
            /\ ~ret'.stuck
            /\ self'.steps_crawling = 0
            /\ self'.steps_crawling_with_throttle_on = 0
            /\ self'.last_forward_progress_time = clock']_vars

\* C24's case: a step that left a ratio of exactly 0.8 more than 1 s after
\* the last forward progress, and was not reported stuck.
C24_Witness ==
  /\ StepReturned /\ ~ret.stuck /\ environ = {}
  /\ ret.obz # NoObz
  /\ self.steps_crawling = 5
  /\ self.steps_crawling_with_throttle_on = 4
  /\ clock - self.last_forward_progress_time > TicksPerSec

\* The last response of this connect call is complete and its version is
\* the client's.
GoodResponse ==
  /\ cxn.log # <<>>
  /\ self.connection_props.type = "dict"
  /\ Has(self.connection_props.items, "max_capture_resolution")
  /\ self.connection_props.items.max_capture_resolution # 0
  /\ self.connection_props.items.server_protocol_version = self.client_version

\* C25: when a handshake attempt of a connect call, the first or any retry,
\* the last one included, returns a complete response with the client's
\* version, connect does not raise the connection-failure error: that error
\* is raised only when every attempt failed.
C25_SuccessOnLastRetryGoesOn ==
  GoodResponse =>
    ~(cxn.pc = "raised" /\ cxn.raised = "RuntimeError: could not connect")

\* The Score objects that benchmark trials recorded.
Recorded == Range(self.trial_scores)

\* C26: after every _reset the per-episode state is at its initial value
\* (step_num, distance_along_route and start_distance_along_route 0,
\* prev_step_time and lap_number absent, prev_lap_score 0, a fresh Score
\* with every accumulator 0, start_time restarted), the benchmark state
\* (should_benchmark, done_benchmarking, trial_scores) is what it was, and
\* the recorded Score objects keep their values.
C26_ResetZeroesEpisodeOnly ==
  [][Reset =>
       /\ self'.step_num = 0
       /\ self'.distance_along_route = 0
       /\ self'.start_distance_along_route = 0
       /\ self'.prev_step_time = NoneT
       /\ self'.lap_number = NoneT
       /\ self'.prev_lap_score = RZero
       /\ heap'[self'.score] = Score(clock')
       /\ self'.score \notin Recorded
       /\ self'.start_time = clock'
       /\ self'.should_benchmark = self.should_benchmark
       /\ self'.done_benchmarking = self.done_benchmarking
       /\ self'.trial_scores = self.trial_scores
       /\ \A id \in Recorded : heap'[id] = heap[id]]_vars

\* C26's case: a _reset after an episode whose Score was recorded as a
\* benchmark trial with a total that is not 0.
C26_Witness ==
  /\ ret.op = "reset"
  /\ self.step_num = 0 /\ self.start_time = clock
  /\ Recorded # {}
  /\ \E id \in Recorded : heap[id].total # RZero
  /\ self.score \notin Recorded

\* This transition is a _step whose snapshot is present and lacks speed or
\* throttle, the test hook being unset.
StepLacksSpeedOrThrottle ==
  /\ clock' > clock /\ ret'.op = "step"
  /\ ret'.snapshot # NoObz
  /\ ~Has(ret'.snapshot, "speed") \/ ~Has(ret'.snapshot, "throttle")
  /\ environ = {}

\* C27: a step whose snapshot is present but lacks speed or throttle
\* completes without raising: the stuck detector reports not stuck and its
\* tracking state is what it was.
C27_MissingSpeedIsNoContribution ==
  [][StepLacksSpeedOrThrottle =>
       /\ ret'.raised = "none"
       /\ ~ret'.stuck
       /\ self'.steps_crawling = self.steps_crawling
       /\ self'.steps_crawling_with_throttle_on = self.steps_crawling_with_throttle_on
       /\ self'.last_forward_progress_time = self.last_forward_progress_time]_vars

\* The current episode's Score object.
CurrentScore == heap[self.score]

\* C28: between steps, after a step that an invalid-input error aborted and
\* after grace-period steps as well, the current episode's score.total is
\* progress_reward + speed_reward - gforce_penalty - lane_deviation_penalty.
C28_TotalIsSumOfTerms ==
  CurrentScore.total =
    RSub(RSub(RAdd(CurrentScore.progress_reward, CurrentScore.speed_reward),
              CurrentScore.gforce_penalty),
         CurrentScore.lane_deviation_penalty)

====
